---- MODULE Spec2Model ----
(***************************************************************************)
(* Caro_Cosmos: hand-gesture driven particle formations.                   *)
(*                                                                         *)
(* The module models handTracking.js (HandTracker), main.js (the           *)
(* orchestrator: formations, camera toggle, render tick) and particles.js  *)
(* (ParticleSystem).                                                       *)
(*                                                                         *)
(* Conventions                                                             *)
(*   - JavaScript null is the string "null" for labels and ids, 0 for      *)
(*     handles and element references, and the empty tuple << >> for       *)
(*     objects (fingerPos, attractor, _targetPositions).                   *)
(*   - Landmark coordinates are integers in tenths of the normalised       *)
(*     image range [0,1].                                                  *)
(***************************************************************************)
EXTENDS Integers, Sequences, FiniteSets, TLC

\* ------------------------------------------------------------------ bounds

\* start() calls the tracker-only specification allows
MaxStarts == 2
\* start() calls the debouncer specification allows
DebounceStarts == 1
\* cap of the debounce counter _gestureCount
MaxCount == 4
\* particles of the system (PARTICLE_COUNT, 5000 in the source)
PARTICLE_COUNT == 2
\* fixed-point resolution: coordinates are integers in units of 1/Scale
Scale == 1000
\* render ticks (values of the elapsed-time clock) a behaviour may take
MaxTicks == 2
\* start() calls the application specification allows
AppStarts == 1
\* largest thumb x coordinate the classifier specification enumerates
ThumbMax == 6
\* largest finger-tip y coordinate the classifier specification enumerates
TipMax == 2
\* update() calls the convergence specification allows
MaxFrames == 120
\* largest point count the generator specification asks for
MaxN == 5

\* --------------------------------------------------------------- constants

Null == "null"

GESTURES == {"INDEX_UP", "PEACE", "ROCK", "ILY", "OPEN", "FIST"}

\* the draws of Math.random the model distinguishes
Seeds == {0, 1}

_DEBOUNCE == 3

StatusRequesting == "Solicitando camara"
StatusReady == "Haz gestos con tu mano"
StatusFailed == "No se pudo acceder a la camara"

StartIds == 1..(MaxStarts + 1)

VARIABLES
  \* HandTracker fields
  fingerPos,       \* << >> or <<x, y>> in tenths of NDC
  gesture,         \* stable label
  active,
  video,           \* _video: 0, or the start() call whose stream is its srcObject
  hands,           \* _hands: 0, or the start() call that created the Hands instance
  rafId,           \* _rafId: 0, or the loop chain whose frame handle was stored last
  gestureBuffer,
  gestureCount,
  \* asynchronous environment of the tracker
  nStarts,         \* start() calls made so far
  startPc,         \* per start() call: "idle", "camera", "play", "done", "failed"
  stream,          \* per start() call: its media stream, "none", "live", "stopped"
  loopPc,          \* per loop chain: "none", "send", "delivered", "raf", "ended"
  \* DOM text
  statusText,
  cameraBtnText,
  \* history of the raw classifications of the hand-present frames (last three)
  rawLog,
  \* history: formation switches made by processGesture since the last
  \* detection result
  switchCount,
  \* history: the stable gesture the last active render tick read
  seenGesture,
  \* ParticleSystem fields
  pos,             \* geometry 'position' array: count * 3 coordinates
  targetPositions, \* _targetPositions: << >> or count * 3 coordinates
  attractor,       \* << >> or <<x, y, z>>
  uTime,           \* material.uniforms.uTime: the clock value of the last update
  thrown,          \* the exception that escaped a handler, or "none"
  \* main.js module state
  bootPc,          \* "loading", "running", "failed"
  formationData,   \* formation id -> point cloud, for the ids computed so far
  currentFormation,
  lastGesture,     \* _lastGesture
  mouse,           \* <<x, y>> in tenths of NDC; 99990 stands for 9999
  titleText,
  \* classifier harness
  clsIn,
  clsOut,
  \* generator harness
  genIn,           \* the call: generator, count, draw
  genOut           \* its result: [done, data]

trackerVars == <<fingerPos, gesture, active, video, hands, rafId,
                 gestureBuffer, gestureCount>>
envVars == <<nStarts, startPc, stream, loopPc>>
domVars == <<statusText, cameraBtnText>>
engineVars == <<pos, targetPositions, attractor, uTime>>
mainVars == <<bootPc, formationData, currentFormation, lastGesture, mouse, titleText>>
clsVars == <<clsIn, clsOut>>
genVars == <<genIn, genOut>>

histVars == <<rawLog, switchCount, seenGesture>>

vars == <<trackerVars, envVars, domVars, histVars, engineVars, thrown, mainVars, clsVars,
          genVars>>

\* ------------------------------------------------- gesture recognition

Abs(n) == IF n < 0 THEN -n ELSE n

\* the landmark indices the tracker reads
LandmarkIdx == {2, 3, 4, 6, 8, 10, 12, 14, 16, 18, 20}

FingerMap(finger) ==
  CASE finger = "index"  -> <<8, 6>>
    [] finger = "middle" -> <<12, 10>>
    [] finger = "ring"   -> <<16, 14>>
    [] finger = "pinky"  -> <<20, 18>>

_isFingerExtended(landmarks, finger) ==
  IF finger = "thumb"
    THEN LET tip == landmarks[4]
             ip  == landmarks[3]
             mcp == landmarks[2]
         IN  \* |tip.x - mcp.x| > |ip.x - mcp.x| * 1.2
             10 * Abs(tip.x - mcp.x) > 12 * Abs(ip.x - mcp.x)
    ELSE LET tipIdx == FingerMap(finger)[1]
             pipIdx == FingerMap(finger)[2]
         IN  landmarks[tipIdx].y < landmarks[pipIdx].y

CountTrue(flags) == Cardinality({k \in DOMAIN flags : flags[k]})

ClassifyFistFirst(thumb, index, middle, ring, pinky) ==
  LET extendedCount == CountTrue(<<thumb, index, middle, ring, pinky>>)
  IN  IF thumb /\ index /\ ~middle /\ ~ring /\ pinky THEN "ILY"
      ELSE IF ~thumb /\ index /\ ~middle /\ ~ring /\ pinky THEN "ROCK"
      ELSE IF index /\ middle /\ ~ring /\ ~pinky THEN "PEACE"
      ELSE IF extendedCount <= 1 THEN "FIST"
      ELSE IF index /\ ~middle /\ ~ring /\ ~pinky /\ ~thumb THEN "INDEX_UP"
      ELSE IF extendedCount >= 4 THEN "OPEN"
      ELSE Null

\* the rule cascade of _classifyGesture over the five flags
ClassifyFlags(thumb, index, middle, ring, pinky) ==
  LET extendedCount == CountTrue(<<thumb, index, middle, ring, pinky>>)
  IN  IF thumb /\ index /\ ~middle /\ ~ring /\ pinky THEN "ILY"
      ELSE IF ~thumb /\ index /\ ~middle /\ ~ring /\ pinky THEN "ROCK"
      ELSE IF index /\ middle /\ ~ring /\ ~pinky THEN "PEACE"
      ELSE IF index /\ ~middle /\ ~ring /\ ~pinky /\ ~thumb THEN "INDEX_UP"
      ELSE IF extendedCount >= 4 THEN "OPEN"
      ELSE IF extendedCount <= 1 THEN "FIST"
      ELSE Null

_classifyGesture(landmarks) ==
  ClassifyFlags(_isFingerExtended(landmarks, "thumb"),
                _isFingerExtended(landmarks, "index"),
                _isFingerExtended(landmarks, "middle"),
                _isFingerExtended(landmarks, "ring"),
                _isFingerExtended(landmarks, "pinky"))

\* ------------------------------------------------------ detection results

Pt(x, y) == [x |-> x, y |-> y]

\* a landmark set from the coordinates the tracker reads: thumb tip, ip and
\* mcp x; the y of each finger's tip and pip; the index tip's x
Landmarks(t4, t3, t2, i8, i6, m12, m10, r16, r14, p20, p18, tipX) ==
  [k \in LandmarkIdx |->
     CASE k = 2  -> Pt(t2, 5)
       [] k = 3  -> Pt(t3, 5)
       [] k = 4  -> Pt(t4, 5)
       [] k = 6  -> Pt(tipX, i6)
       [] k = 8  -> Pt(tipX, i8)
       [] k = 10 -> Pt(5, m10)
       [] k = 12 -> Pt(5, m12)
       [] k = 14 -> Pt(5, r14)
       [] k = 16 -> Pt(5, r16)
       [] k = 18 -> Pt(5, p18)
       [] k = 20 -> Pt(5, p20)]

\* a hand showing the given extended flags, index tip at x = tipX
Hand(thumb, index, middle, ring, pinky, tipX) ==
  Landmarks(IF thumb THEN 8 ELSE 6, 6, 5,
            IF index THEN 3 ELSE 7, 5,
            IF middle THEN 3 ELSE 7, 5,
            IF ring THEN 3 ELSE 7, 5,
            IF pinky THEN 3 ELSE 7, 5,
            tipX)

\* results.multiHandLandmarks: a sequence of landmark sets (at most one hand)
NoHand == << >>

HandResult(lm) == <<lm>>

\* sample hands: a fist, an open hand and a pattern no rule matches
FistHand == Hand(FALSE, FALSE, FALSE, FALSE, FALSE, 2)
OpenHand == Hand(TRUE, TRUE, TRUE, TRUE, TRUE, 5)
OddHand  == Hand(FALSE, FALSE, TRUE, TRUE, FALSE, 5)
\* the results each specification's detector delivers
TrackerResults == {NoHand, HandResult(FistHand)}

DebounceResults == {NoHand, HandResult(FistHand), HandResult(OpenHand), HandResult(OddHand)}

AppResults == {NoHand, HandResult(FistHand)}

\* --------------------------------------------------------- HandTracker

\* _onResults with the zero-hand branch also clearing the stable label
OnResultsClearsGesture(results) ==
  IF Len(results) > 0
    THEN LET lm  == results[1]
             tip == lm[8]
             raw == _classifyGesture(lm)
             cnt == IF raw = gestureBuffer THEN gestureCount + 1 ELSE 1
         IN  /\ fingerPos' = <<-(tip.x * 2 - 10), -(tip.y * 2 - 10)>>
             /\ gestureBuffer' = raw
             /\ gestureCount' = cnt
             /\ gesture' = IF cnt >= _DEBOUNCE THEN raw ELSE gesture
    ELSE /\ fingerPos' = << >>
         /\ gesture' = Null
         /\ UNCHANGED <<gestureBuffer, gestureCount>>

\* _onResults with the zero-hand branch also restarting the debounce
OnResultsDropoutResets(results) ==
  IF Len(results) > 0
    THEN LET lm  == results[1]
             tip == lm[8]
             raw == _classifyGesture(lm)
             cnt == IF raw = gestureBuffer THEN gestureCount + 1 ELSE 1
         IN  /\ fingerPos' = <<-(tip.x * 2 - 10), -(tip.y * 2 - 10)>>
             /\ gestureBuffer' = raw
             /\ gestureCount' = cnt
             /\ gesture' = IF cnt >= _DEBOUNCE THEN raw ELSE gesture
    ELSE /\ fingerPos' = << >>
         /\ gestureBuffer' = Null
         /\ gestureCount' = 0
         /\ UNCHANGED gesture

\* _onResults committing after two identical classifications
OnResultsCommitsEarly(results) ==
  IF Len(results) > 0
    THEN LET lm  == results[1]
             tip == lm[8]
             raw == _classifyGesture(lm)
             cnt == IF raw = gestureBuffer THEN gestureCount + 1 ELSE 1
         IN  /\ fingerPos' = <<-(tip.x * 2 - 10), -(tip.y * 2 - 10)>>
             /\ gestureBuffer' = raw
             /\ gestureCount' = cnt
             /\ gesture' = IF cnt >= _DEBOUNCE - 1 THEN raw ELSE gesture
    ELSE /\ fingerPos' = << >>
         /\ UNCHANGED <<gesture, gestureBuffer, gestureCount>>

\* _onResults(results): the preview drawing is not modelled
OnResults(results) ==
  IF Len(results) > 0
    THEN LET lm  == results[1]
             tip == lm[8]
             raw == _classifyGesture(lm)
             cnt == IF raw = gestureBuffer THEN gestureCount + 1 ELSE 1
         IN  /\ fingerPos' = <<-(tip.x * 2 - 10), -(tip.y * 2 - 10)>>
             /\ gestureBuffer' = raw
             /\ gestureCount' = cnt
             /\ gesture' = IF cnt >= _DEBOUNCE THEN raw ELSE gesture
    ELSE /\ fingerPos' = << >>
         /\ UNCHANGED <<gesture, gestureBuffer, gestureCount>>

\* the counter stays within MaxCount
CountFits(results) ==
  Len(results) > 0 /\ _classifyGesture(results[1]) = gestureBuffer
    => gestureCount < MaxCount

\* _loop() without the active check
LoopPcAlways(isActive, pc) == "send"

\* _loop(), called for a loop chain: the chain's next position
LoopPc(isActive, pc) == IF ~isActive THEN "ended" ELSE "send"

\* stop() lines 110-112: the tracks of _video.srcObject are stopped
StopStreams(v) ==
  IF v # 0 /\ stream[v] # "none"
    THEN [stream EXCEPT ![v] = "stopped"]
    ELSE stream

\* stop(): the preview canvas is not modelled
Stop ==
  /\ active' = FALSE
  /\ loopPc' = IF rafId # 0 /\ loopPc[rafId] = "raf"
                 THEN [loopPc EXCEPT ![rafId] = "ended"]
                 ELSE loopPc
  /\ stream' = StopStreams(video)
  /\ fingerPos' = << >>
  /\ gesture' = Null
  /\ UNCHANGED <<video, hands, rafId, gestureBuffer, gestureCount>>

\* start(), up to its first await (getUserMedia)
StartCall(maxStarts) ==
  IF active
    THEN UNCHANGED <<trackerVars, envVars, domVars>>
    ELSE /\ nStarts < maxStarts
         /\ nStarts' = nStarts + 1
         /\ startPc' = [startPc EXCEPT ![nStarts + 1] = "camera"]
         /\ statusText' = StatusRequesting
         /\ UNCHANGED <<trackerVars, stream, loopPc, cameraBtnText>>

\* toggleCamera(), up to the await of tracker.start()
ToggleCamera(maxStarts) ==
  IF active
    THEN /\ Stop
         /\ cameraBtnText' = "Activar Camara"
         /\ statusText' = ""
         /\ UNCHANGED <<nStarts, startPc>>
    ELSE StartCall(maxStarts)

\* start() resumes with the stream, up to the await of _video.play()
CameraGranted(i) ==
  /\ startPc[i] = "camera"
  /\ startPc' = [startPc EXCEPT ![i] = "play"]
  /\ stream' = [stream EXCEPT ![i] = "live"]
  /\ video' = i
  /\ UNCHANGED <<fingerPos, gesture, active, hands, rafId, gestureBuffer,
                 gestureCount, nStarts, loopPc, domVars>>

\* getUserMedia rejects: start() throws into toggleCamera's catch
CameraDenied(i) ==
  /\ startPc[i] = "camera"
  /\ startPc' = [startPc EXCEPT ![i] = "failed"]
  /\ statusText' = StatusFailed
  /\ UNCHANGED <<trackerVars, nStarts, stream, loopPc, cameraBtnText>>

\* start() resumes after play(): Hands is created, the tracker becomes active,
\* the first _loop() runs; then toggleCamera's continuation
Played(i) ==
  /\ startPc[i] = "play"
  /\ startPc' = [startPc EXCEPT ![i] = "done"]
  /\ hands' = i
  /\ active' = TRUE
  /\ statusText' = StatusReady
  /\ loopPc' = [loopPc EXCEPT ![i] = LoopPc(TRUE, loopPc[i])]
  /\ cameraBtnText' = "Desactivar Camara"
  /\ UNCHANGED <<fingerPos, gesture, video, rafId, gestureBuffer, gestureCount,
                 nStarts, stream>>

\* the detector delivers the result of the request in flight
Deliver(i, results) ==
  /\ loopPc[i] = "send"
  /\ CountFits(results)
  /\ OnResults(results)
  /\ loopPc' = [loopPc EXCEPT ![i] = "delivered"]
  /\ UNCHANGED <<active, video, hands, rafId, nStarts, startPc, stream, domVars>>

\* hands.send() resolves: the next _loop() is scheduled
SendResolved(i) ==
  /\ loopPc[i] = "delivered"
  /\ rafId' = i
  /\ loopPc' = [loopPc EXCEPT ![i] = "raf"]
  /\ UNCHANGED <<fingerPos, gesture, active, video, hands, gestureBuffer,
                 gestureCount, nStarts, startPc, stream, domVars>>

\* the scheduled animation frame runs _loop()
RafFire(i) ==
  /\ loopPc[i] = "raf"
  /\ loopPc' = [loopPc EXCEPT ![i] = LoopPc(active, loopPc[i])]
  /\ UNCHANGED <<trackerVars, nStarts, startPc, stream, domVars>>

\* ------------------------------------------------------- ParticleSystem

\* A coordinate is an integer number of 1/Scale units, or NaN.
NaN == -(1000 * Scale)

\* n / d rounded toward zero
Trunc(n, d) == IF n >= 0 THEN n \div d ELSE -((-n) \div d)

RECURSIVE ISqrtIter(_, _, _)
ISqrtIter(n, lo, hi) ==
  IF lo >= hi THEN lo
  ELSE LET mid == (lo + hi + 1) \div 2
       IN  IF mid * mid <= n THEN ISqrtIter(n, mid, hi) ELSE ISqrtIter(n, lo, mid - 1)

\* floor of the square root, for 0 <= n < (5 * Scale)^2
ISqrt(n) == ISqrtIter(n, 0, 5 * Scale)

attractRadius == 4 * Scale
attractStrength == (6 * Scale) \div 100
attractEpsilon == Scale \div 100

\* a JavaScript value handed to setTarget: undefined, or a Float32Array
Undefined == [defined |-> FALSE, data |-> << >>]
Cloud(data) == [defined |-> TRUE, data |-> data]

\* setTarget reading source point i instead of i % srcLen: past the end of
\* the source every element read is undefined, stored as NaN
WrapTargetNoWrap(data, count) ==
  [k \in 1..(count * 3) |->
     LET i      == (k - 1) \div 3
         c      == (k - 1) % 3
         srcLen == Len(data) \div 3
     IN  IF i >= srcLen THEN NaN ELSE data[i * 3 + c + 1]]

\* the array setTarget builds: for a zero-length source, i % 0 is NaN and
\* every element read is undefined, stored as NaN
WrapTarget(data, count) ==
  [k \in 1..(count * 3) |->
     LET i      == (k - 1) \div 3
         c      == (k - 1) % 3
         srcLen == Len(data) \div 3
     IN  IF srcLen = 0 THEN NaN ELSE data[(i % srcLen) * 3 + c + 1]]

\* setTarget also copying the target into the live positions
SetTargetSnaps(e, targetArray) ==
  IF ~targetArray.defined
    THEN [e EXCEPT !.thrown = "TypeError"]
    ELSE [e EXCEPT !.targetPositions = WrapTarget(targetArray.data, e.count),
                   !.pos = WrapTarget(targetArray.data, e.count)]

\* setTarget(targetArray) on the engine e: reading .length of undefined throws
SetTarget(e, targetArray) ==
  IF ~targetArray.defined
    THEN [e EXCEPT !.thrown = "TypeError"]
    ELSE [e EXCEPT !.targetPositions = WrapTarget(targetArray.data, e.count)]

\* The store of p + n/d into the Float32Array: the sum is computed exactly
\* enough (in double precision) and rounded to the nearest representable
\* value, ties to even. The representable values are the multiples of
\* 1/Scale: one grid step stands for one unit in the last place.
F32Add(p, n, d) ==
  LET lo == p + (n \div d)
      r  == n % d
  IN  IF 2 * r < d THEN lo
      ELSE IF 2 * r > d THEN lo + 1
      ELSE IF lo % 2 = 0 THEN lo ELSE lo + 1

\* the lerp step with a speed of 1.08 instead of 0.08
LerpCoordOvershoots(p, t) ==
  IF p = NaN \/ t = NaN THEN NaN ELSE F32Add(p, (t - p) * 108, 100)

\* pos[k] += (target[k] - pos[k]) * lerpSpeed, lerpSpeed = 0.08
LerpCoord(p, t) ==
  IF p = NaN \/ t = NaN THEN NaN ELSE F32Add(p, (t - p) * 8, 100)

\* the attraction without the radius and epsilon guards
AttractParticleUnguarded(p, a) ==
  IF a = << >> \/ p[1] = NaN \/ p[2] = NaN \/ p[3] = NaN
    THEN p
    ELSE LET dx == a[1] - p[1]
             dy == a[2] - p[2]
             dz == a[3] - p[3]
             d2 == dx * dx + dy * dy + dz * dz
         IN  IF d2 > 0 /\ d2 < 4 * attractRadius * attractRadius
               THEN LET dist == ISqrtIter(d2, 0, 2 * attractRadius)
                        Push(c, d) == F32Add(c, d * attractStrength * (attractRadius - dist),
                                             attractRadius * dist)
                    IN  <<Push(p[1], dx), Push(p[2], dy), Push(p[3], dz)>>
               ELSE p

\* the attractor's displacement of one particle p = <<x, y, z>>
AttractParticle(p, a) ==
  IF a = << >> \/ p[1] = NaN \/ p[2] = NaN \/ p[3] = NaN
    THEN p
    ELSE LET dx == a[1] - p[1]
             dy == a[2] - p[2]
             dz == a[3] - p[3]
             d2 == dx * dx + dy * dy + dz * dz
         IN  IF d2 < attractRadius * attractRadius
                /\ d2 > attractEpsilon * attractEpsilon
               THEN LET dist == ISqrt(d2)
                        \* dx / dist * strength * (1 - dist / radius)
                        Push(c, d) == F32Add(c, d * attractStrength * (attractRadius - dist),
                                             attractRadius * dist)
                    IN  <<Push(p[1], dx), Push(p[2], dy), Push(p[3], dz)>>
               ELSE p

\* update(elapsed) on the engine e
Update(e, elapsed) ==
  LET Lerped(k) == IF e.targetPositions # << >>
                     THEN LerpCoord(e.pos[k], e.targetPositions[k])
                     ELSE e.pos[k]
      Particle(i) == AttractParticle(
                       <<Lerped(i * 3 + 1), Lerped(i * 3 + 2), Lerped(i * 3 + 3)>>,
                       e.attractor)
  IN  [e EXCEPT !.uTime = elapsed,
                !.pos = [k \in 1..(e.count * 3) |->
                           Particle((k - 1) \div 3)[((k - 1) % 3) + 1]]]

\* the engine as a record, and back
Engine ==
  [count |-> PARTICLE_COUNT, pos |-> pos, targetPositions |-> targetPositions,
   attractor |-> attractor, uTime |-> uTime, thrown |-> thrown]

SetEngine(e) ==
  /\ pos' = e.pos
  /\ targetPositions' = e.targetPositions
  /\ attractor' = e.attractor
  /\ uTime' = e.uTime
  /\ thrown' = e.thrown

\* _buildGeometry: random start positions inside a ball of radius 12
StartPoint(i, seed) ==
  CASE (i + seed) % 3 = 0 -> <<6 * Scale, 0, -(6 * Scale)>>
    [] (i + seed) % 3 = 1 -> <<-(3 * Scale), 5 * Scale, 0>>
    [] (i + seed) % 3 = 2 -> <<Scale \div 2, -Scale, 2 * Scale>>

\* the coordinate array of the points pts[0], ..., pts[count - 1]
Flat(count, pts) ==
  [k \in 1..(count * 3) |-> pts[(k - 1) \div 3][((k - 1) % 3) + 1]]

_buildGeometry(count, seed) == Flat(count, [i \in 0..(count - 1) |-> StartPoint(i, seed)])

\* ------------------------------------------------- formation generators

\* a sample of the uniform ball of the given radius (in 1/Scale units)
BallPoint(i, radius, seed) ==
  CASE (i + seed) % 3 = 0 -> <<radius \div 2, 0, -(radius \div 2)>>
    [] (i + seed) % 3 = 1 -> <<-(radius \div 2), radius \div 2, 0>>
    [] (i + seed) % 3 = 2 -> <<0, -(radius \div 4), radius \div 2>>

getSpherePositions(count, radius, seed) ==
  Flat(count, [i \in 0..(count - 1) |-> BallPoint(i, radius, seed)])

getCompactPositions(count, radius, seed) ==
  Flat(count, [i \in 0..(count - 1) |-> BallPoint(i, radius, seed)])

\* the parametric heart at t = 0, pi/2, pi, 3pi/2, scaled by scale * 0.25
\* (scale in hundredths), with a depth jitter of +-0.3
HeartPoint(i, scale, seed) ==
  LET q == (scale * Scale) \div 400
      z == IF seed = 0 THEN (3 * Scale) \div 10 ELSE -((3 * Scale) \div 10)
  IN  CASE (i + seed) % 4 = 0 -> <<0, 5 * q, z>>
        [] (i + seed) % 4 = 1 -> <<16 * q, 4 * q, z>>
        [] (i + seed) % 4 = 2 -> <<0, -(17 * q), z>>
        [] (i + seed) % 4 = 3 -> <<-(16 * q), 4 * q, z>>

getHeartPositions(count, scale, seed) ==
  Flat(count, [i \in 0..(count - 1) |-> HeartPoint(i, scale, seed)])

\* the first floor(count * 0.4) points fill the body, the rest the ring
PlanetPoint(i, count, seed) ==
  LET coreCount == (count * 4) \div 10
      ringR     == 4 * Scale + (IF seed = 0 THEN (9 * Scale) \div 10
                                             ELSE -((9 * Scale) \div 10))
      y         == (15 * Scale) \div 100
  IN  IF i < coreCount
        THEN BallPoint(i, 2 * Scale, seed)
        ELSE CASE (i + seed) % 4 = 0 -> <<ringR, y, 0>>
               [] (i + seed) % 4 = 1 -> <<0, -y, ringR>>
               [] (i + seed) % 4 = 2 -> <<-ringR, y, 0>>
               [] (i + seed) % 4 = 3 -> <<0, -y, -ringR>>

\* getPlanetPositions returning the ring points only
getPlanetPositionsRingOnly(count, seed) ==
  Flat(count - (count * 4) \div 10,
       [i \in 0..(count - (count * 4) \div 10 - 1) |->
          PlanetPoint(i + (count * 4) \div 10, count, seed)])

getPlanetPositions(count, seed) ==
  Flat(count, [i \in 0..(count - 1) |-> PlanetPoint(i, count, seed)])

\* samples of the surface of the centred, extruded text: size 3, depth 0.4
TextPoint(i, text, seed) ==
  LET w == IF text = "Carolina" THEN 8 * Scale ELSE 9 * Scale
      z == (2 * Scale) \div 10
  IN  CASE (i + seed) % 3 = 0 -> <<-w, Scale, z>>
        [] (i + seed) % 3 = 1 -> <<w \div 2, -Scale, -z>>
        [] (i + seed) % 3 = 2 -> <<w, Scale \div 2, z>>

sampleSurface(text, count, seed) ==
  Flat(count, [i \in 0..(count - 1) |-> TextPoint(i, text, seed)])

getTextPositions(text, count, seed) == sampleSurface(text, count, seed)

\* ------------------------------------------------------------- main.js

\* Object.values(F)
F == <<"PLANET", "CAROLINA", "TEQUIERO", "HEART", "COSMOS", "COMPACT">>

FormationIds == {F[k] : k \in DOMAIN F}

GESTURE_TO_FORMATION ==
  [g \in GESTURES |->
     CASE g = "INDEX_UP" -> "PLANET"
       [] g = "PEACE"    -> "CAROLINA"
       [] g = "ROCK"     -> "TEQUIERO"
       [] g = "ILY"      -> "HEART"
       [] g = "OPEN"     -> "COSMOS"
       [] g = "FIST"     -> "COMPACT"]

FORMATION_INFO ==
  [f \in FormationIds |->
     CASE f = "PLANET"   -> [title |-> "Un planeta para ti"]
       [] f = "CAROLINA" -> [title |-> "Carolina"]
       [] f = "TEQUIERO" -> [title |-> "Te Quiero (texto)"]
       [] f = "HEART"    -> [title |-> "Te Quiero (corazon)"]
       [] f = "COSMOS"   -> [title |-> "Las estrellas son tuyas"]
       [] f = "COMPACT"  -> [title |-> "Todo para ti"]]

\* the module state the formation functions read and write, as a record
Main ==
  [currentFormation |-> currentFormation, formationData |-> formationData,
   titleText |-> titleText, lastGesture |-> lastGesture, particles |-> Engine]

SetMain(m) ==
  /\ currentFormation' = m.currentFormation
  /\ formationData' = m.formationData
  /\ titleText' = m.titleText
  /\ lastGesture' = m.lastGesture
  /\ SetEngine(m.particles)

\* precomputeFormations() setting the target before the clouds are computed
precomputeFormationsTargetFirst(m, seed) ==
  LET n  == m.particles.count
      fd == [f \in FormationIds |->
               CASE f = "COSMOS"   -> getSpherePositions(n, 12 * Scale, seed)
                 [] f = "PLANET"   -> getPlanetPositions(n, seed)
                 [] f = "CAROLINA" -> getTextPositions("Carolina", n, seed)
                 [] f = "TEQUIERO" -> getTextPositions("Te Quiero", n, seed)
                 [] f = "HEART"    -> getHeartPositions(n, 70, seed)
                 [] f = "COMPACT"  -> getCompactPositions(n, (12 * Scale) \div 10, seed)]
  IN  [m EXCEPT !.formationData = fd,
                !.particles = SetTarget(m.particles,
                                        IF "COSMOS" \in DOMAIN m.formationData
                                          THEN Cloud(m.formationData["COSMOS"])
                                          ELSE Undefined)]

\* precomputeFormations(), after loadFont() resolved
precomputeFormations(m, seed) ==
  LET n  == m.particles.count
      fd == [f \in FormationIds |->
               CASE f = "COSMOS"   -> getSpherePositions(n, 12 * Scale, seed)
                 [] f = "PLANET"   -> getPlanetPositions(n, seed)
                 [] f = "CAROLINA" -> getTextPositions("Carolina", n, seed)
                 [] f = "TEQUIERO" -> getTextPositions("Te Quiero", n, seed)
                 [] f = "HEART"    -> getHeartPositions(n, 70, seed)
                 [] f = "COMPACT"  -> getCompactPositions(n, (12 * Scale) \div 10, seed)]
  IN  [m EXCEPT !.formationData = fd,
                !.particles = SetTarget(m.particles, Cloud(fd["COSMOS"]))]

\* setFormation changing the formation and the title but not the target
setFormationKeepsTarget(m, id) ==
  IF id = m.currentFormation THEN m
  ELSE IF id \notin DOMAIN m.formationData THEN m
  ELSE [m EXCEPT !.currentFormation = id,
                 !.titleText = IF id \in FormationIds
                                 THEN FORMATION_INFO[id].title ELSE @]

\* setFormation without the check for a computed cloud
setFormationUnguarded(m, id) ==
  IF id = m.currentFormation THEN m
  ELSE LET e == SetTarget(m.particles,
                          IF id \in DOMAIN m.formationData
                            THEN Cloud(m.formationData[id]) ELSE Undefined)
       IN  [m EXCEPT !.currentFormation = id,
                     !.particles = e,
                     !.titleText = IF e.thrown = "none" /\ id \in FormationIds
                                     THEN FORMATION_INFO[id].title ELSE @]

\* setFormation(id)
setFormation(m, id) ==
  IF id = m.currentFormation THEN m
  ELSE IF id \notin DOMAIN m.formationData THEN m
  ELSE LET e == SetTarget(m.particles, Cloud(m.formationData[id]))
       IN  [m EXCEPT !.currentFormation = id,
                     !.particles = e,
                     !.titleText = IF e.thrown = "none" /\ id \in FormationIds
                                     THEN FORMATION_INFO[id].title ELSE @]

IndexOf(seq, x) == IF \E k \in DOMAIN seq : seq[k] = x
                     THEN CHOOSE k \in DOMAIN seq : seq[k] = x
                     ELSE 0

\* cycleFormation() without the wrap: the last key has no successor
cycleFormationNoWrap(m) ==
  LET idx == IndexOf(F, m.currentFormation) - 1
  IN  IF idx + 1 >= Len(F) THEN m ELSE setFormation(m, F[idx + 2])

\* cycleFormation(): keys[(idx + 1) % keys.length], indices from 0
cycleFormation(m) ==
  LET idx == IndexOf(F, m.currentFormation) - 1
  IN  setFormation(m, F[((idx + 1) % Len(F)) + 1])

\* processGesture comparing the mapped formation with the current one
\* instead of the gesture with _lastGesture
processGestureTracksFormation(m, isActive, g) ==
  IF ~isActive THEN m
  ELSE LET m1 == IF g # Null /\ g \in DOMAIN GESTURE_TO_FORMATION
                      /\ GESTURE_TO_FORMATION[g] # m.currentFormation
                   THEN setFormation(m, GESTURE_TO_FORMATION[g])
                   ELSE m
       IN  [m1 EXCEPT !.lastGesture = g]

\* processGesture without the assignment to _lastGesture
processGestureForgets(m, isActive, g) ==
  IF ~isActive THEN m
  ELSE IF g # Null /\ g # m.lastGesture /\ g \in DOMAIN GESTURE_TO_FORMATION
         THEN setFormation(m, GESTURE_TO_FORMATION[g])
         ELSE m

\* processGesture switching on every tick the gesture is held
processGestureEveryTick(m, isActive, g) ==
  IF ~isActive THEN m
  ELSE LET m1 == IF g # Null /\ g \in DOMAIN GESTURE_TO_FORMATION
                   THEN setFormation(m, GESTURE_TO_FORMATION[g])
                   ELSE m
       IN  [m1 EXCEPT !.lastGesture = g]

\* processGesture(), reading tracker.active and tracker.gesture
processGesture(m, isActive, g) ==
  IF ~isActive THEN m
  ELSE LET m1 == IF g # Null /\ g # m.lastGesture /\ g \in DOMAIN GESTURE_TO_FORMATION
                   THEN setFormation(m, GESTURE_TO_FORMATION[g])
                   ELSE m
       IN  [m1 EXCEPT !.lastGesture = g]

\* half the width and height of the view at the plane z = 0: the camera has
\* a 60 degree field of view at distance 18; the aspect ratio is taken as 16:9
ViewHalfHeight == (10392 * Scale) \div 1000
ViewHalfWidth == (18475 * Scale) \div 1000

\* getAttractorFromNDC(ndc): the point of the plane z = 0 under ndc
getAttractorFromNDC(ndc) ==
  <<Trunc(ndc[1] * ViewHalfWidth, 10), Trunc(ndc[2] * ViewHalfHeight, 10), 0>>

MouseAway == <<99990, 99990>>

\* animate() advancing the particles before processGesture() runs
animateAdvancesFirst(m, isActive, g, finger, pointer, elapsed) ==
  LET a == IF isActive /\ finger # << >> THEN getAttractorFromNDC(finger)
           ELSE IF pointer[1] < 90000 THEN getAttractorFromNDC(pointer)
           ELSE << >>
      e == Update([m.particles EXCEPT !.attractor = a], elapsed)
  IN  processGesture([m EXCEPT !.particles = e], isActive, g)

\* animate() using the fingertip position without the check of tracker.active
animateFingerAlways(m, isActive, g, finger, pointer, elapsed) ==
  LET m1 == processGesture(m, isActive, g)
      a  == IF finger # << >> THEN getAttractorFromNDC(finger)
            ELSE IF pointer[1] < 90000 THEN getAttractorFromNDC(pointer)
            ELSE << >>
  IN  [m1 EXCEPT !.particles = Update([m1.particles EXCEPT !.attractor = a], elapsed)]

\* animate(): one render tick at clock value elapsed; the mesh rotation and
\* the renderer are not modelled
animate(m, isActive, g, finger, pointer, elapsed) ==
  LET m1 == processGesture(m, isActive, g)
      a  == IF isActive /\ finger # << >> THEN getAttractorFromNDC(finger)
            ELSE IF pointer[1] < 90000 THEN getAttractorFromNDC(pointer)
            ELSE << >>
  IN  [m1 EXCEPT !.particles = Update([m1.particles EXCEPT !.attractor = a], elapsed)]

\* loadFont() resolves: precomputeFormations() completes and its then-callback
\* runs animate() for the first time
FontLoaded(seed) ==
  /\ bootPc = "loading"
  /\ bootPc' = "running"
  /\ SetMain(animate(precomputeFormations(Main, seed),
                     active, gesture, fingerPos, mouse, uTime + 1))
  /\ UNCHANGED mouse

\* loadFont() rejects: precomputeFormations() rejects and nothing handles it
FontFailed ==
  /\ bootPc = "loading"
  /\ bootPc' = "failed"
  /\ thrown' = "FontLoadError"
  /\ UNCHANGED <<formationData, currentFormation, lastGesture, mouse, titleText,
                 engineVars>>

\* a later animation frame that runs only while no detection request is
\* outstanding
TickWaits ==
  /\ bootPc = "running"
  /\ uTime < MaxTicks
  /\ \A i \in StartIds : loopPc[i] # "send"
  /\ SetMain(animate(Main, active, gesture, fingerPos, mouse, uTime + 1))
  /\ UNCHANGED <<bootPc, mouse>>

\* a later animation frame
Tick ==
  /\ bootPc = "running"
  /\ uTime < MaxTicks
  /\ SetMain(animate(Main, active, gesture, fingerPos, mouse, uTime + 1))
  /\ UNCHANGED <<bootPc, mouse>>

\* click on the formation button
CycleClick ==
  /\ SetMain(cycleFormation(Main))
  /\ UNCHANGED <<bootPc, mouse>>

PointerSamples == {<<2, -1>>}

PointerMove(p) ==
  /\ mouse' = p
  /\ UNCHANGED <<bootPc, formationData, currentFormation, lastGesture, titleText,
                 engineVars, thrown>>

PointerLeave ==
  /\ mouse' = MouseAway
  /\ UNCHANGED <<bootPc, formationData, currentFormation, lastGesture, titleText,
                 engineVars, thrown>>

\* ---------------------------------------------------------------- history

Last3(s) == IF Len(s) > 3 THEN SubSeq(s, Len(s) - 2, Len(s)) ELSE s

\* rawLog records the raw classification of every hand-present frame
LogRaw(results) ==
  rawLog' = IF Len(results) > 0
              THEN Last3(Append(rawLog, _classifyGesture(results[1])))
              ELSE rawLog

\* switchCount counts the formation switches the render ticks made since the
\* last detection result: a result resets it, a tick that changes the
\* formation adds one
ResultArrives == switchCount' = 0

\* a session boundary: stop() ends a session and start() begins one, so the
\* frames logged so far belong to no later session
SessionEdge == rawLog' = << >>

CountSwitch ==
  switchCount' = IF currentFormation' # currentFormation
                   THEN switchCount + 1 ELSE switchCount

\* seenGesture is the stable gesture read by the last render tick that ran
\* while the tracker was active
SeeGesture == seenGesture' = IF active THEN gesture ELSE seenGesture

\* ----------------------------------------------------------- specifications

InitTracker ==
  /\ fingerPos = << >>
  /\ gesture = Null
  /\ active = FALSE
  /\ video = 0
  /\ hands = 0
  /\ rafId = 0
  /\ gestureBuffer = Null
  /\ gestureCount = 0
  /\ nStarts = 0
  /\ startPc = [i \in StartIds |-> "idle"]
  /\ stream = [i \in StartIds |-> "none"]
  /\ loopPc = [i \in StartIds |-> "none"]
  /\ statusText = ""
  /\ cameraBtnText = "Activar Camara"
  /\ rawLog = << >>
  /\ switchCount = 0
  /\ seenGesture = Null

InitEngine ==
  /\ pos = _buildGeometry(PARTICLE_COUNT, 0)
  /\ targetPositions = << >>
  /\ attractor = << >>
  /\ uTime = 0
  /\ thrown = "none"

InitMain ==
  /\ bootPc = "loading"
  /\ formationData = << >>
  /\ currentFormation = "COSMOS"
  /\ lastGesture = Null
  /\ mouse = MouseAway
  /\ titleText = ""

InitCls ==
  /\ clsIn = NoHand
  /\ clsOut = Null

InitGen ==
  /\ genIn = [gen |-> "none", n |-> 0, seed |-> 0]
  /\ genOut = [done |-> FALSE, data |-> << >>]

Init == InitTracker /\ InitEngine /\ InitMain /\ InitCls /\ InitGen

\* the tracker's life cycle: several start() calls, one gesture
NextTracker ==
  \/ ToggleCamera(MaxStarts) /\ UNCHANGED <<histVars, engineVars, thrown, mainVars, clsVars, genVars>>
  \/ \E i \in StartIds : CameraGranted(i) /\ UNCHANGED <<histVars, engineVars, thrown, mainVars, clsVars, genVars>>
  \/ \E i \in StartIds : CameraDenied(i) /\ UNCHANGED <<histVars, engineVars, thrown, mainVars, clsVars, genVars>>
  \/ \E i \in StartIds : Played(i) /\ UNCHANGED <<histVars, engineVars, thrown, mainVars, clsVars, genVars>>
  \/ \E i \in StartIds : SendResolved(i) /\ UNCHANGED <<histVars, engineVars, thrown, mainVars, clsVars, genVars>>
  \/ \E i \in StartIds : RafFire(i) /\ UNCHANGED <<histVars, engineVars, thrown, mainVars, clsVars, genVars>>
  \/ \E i \in StartIds, r \in TrackerResults :
       Deliver(i, r) /\ UNCHANGED <<histVars, engineVars, thrown, mainVars, clsVars, genVars>>

SpecTracker == Init /\ [][NextTracker]_vars

\* the debouncer: one session at a time, several raw labels, with the log
NextDebounce ==
  \/ ToggleCamera(DebounceStarts) /\ UNCHANGED <<histVars, engineVars, thrown, mainVars, clsVars, genVars>>
  \/ \E i \in StartIds : CameraGranted(i) /\ UNCHANGED <<histVars, engineVars, thrown, mainVars, clsVars, genVars>>
  \/ \E i \in StartIds : CameraDenied(i) /\ UNCHANGED <<histVars, engineVars, thrown, mainVars, clsVars, genVars>>
  \/ \E i \in StartIds : Played(i) /\ UNCHANGED <<histVars, engineVars, thrown, mainVars, clsVars, genVars>>
  \/ \E i \in StartIds : SendResolved(i) /\ UNCHANGED <<histVars, engineVars, thrown, mainVars, clsVars, genVars>>
  \/ \E i \in StartIds : RafFire(i) /\ UNCHANGED <<histVars, engineVars, thrown, mainVars, clsVars, genVars>>
  \/ \E i \in StartIds, r \in DebounceResults :
       Deliver(i, r) /\ LogRaw(r)
         /\ UNCHANGED <<switchCount, seenGesture, engineVars, thrown, mainVars, clsVars, genVars>>

SpecDebounce == Init /\ [][NextDebounce]_vars

\* sessions: the tracker is stopped and started again; the log holds the raw
\* labels of the hand-present frames received since the session began
NextSession ==
  \/ ToggleCamera(MaxStarts) /\ SessionEdge
       /\ UNCHANGED <<switchCount, seenGesture, engineVars, thrown, mainVars, clsVars, genVars>>
  \/ \E i \in StartIds : CameraGranted(i) /\ UNCHANGED <<histVars, engineVars, thrown, mainVars, clsVars, genVars>>
  \/ \E i \in StartIds : CameraDenied(i) /\ UNCHANGED <<histVars, engineVars, thrown, mainVars, clsVars, genVars>>
  \/ \E i \in StartIds : Played(i) /\ UNCHANGED <<histVars, engineVars, thrown, mainVars, clsVars, genVars>>
  \/ \E i \in StartIds : SendResolved(i) /\ UNCHANGED <<histVars, engineVars, thrown, mainVars, clsVars, genVars>>
  \/ \E i \in StartIds : RafFire(i) /\ UNCHANGED <<histVars, engineVars, thrown, mainVars, clsVars, genVars>>
  \/ \E i \in StartIds, r \in TrackerResults :
       Deliver(i, r) /\ LogRaw(r)
         /\ UNCHANGED <<switchCount, seenGesture, engineVars, thrown, mainVars, clsVars, genVars>>

SpecSession == Init /\ [][NextSession]_vars

\* the application: boot, render ticks, both buttons, pointer, detector
Next ==
  \/ ToggleCamera(AppStarts) /\ UNCHANGED <<histVars, engineVars, thrown, mainVars, clsVars, genVars>>
  \/ \E i \in StartIds :
       CameraGranted(i) /\ UNCHANGED <<histVars, engineVars, thrown, mainVars, clsVars, genVars>>
  \/ \E i \in StartIds :
       CameraDenied(i) /\ UNCHANGED <<histVars, engineVars, thrown, mainVars, clsVars, genVars>>
  \/ \E i \in StartIds :
       Played(i) /\ UNCHANGED <<histVars, engineVars, thrown, mainVars, clsVars, genVars>>
  \/ \E i \in StartIds, r \in AppResults :
       Deliver(i, r) /\ ResultArrives
         /\ UNCHANGED <<rawLog, seenGesture, engineVars, thrown, mainVars, clsVars, genVars>>
  \/ \E i \in StartIds :
       SendResolved(i) /\ UNCHANGED <<histVars, engineVars, thrown, mainVars, clsVars, genVars>>
  \/ \E i \in StartIds :
       RafFire(i) /\ UNCHANGED <<histVars, engineVars, thrown, mainVars, clsVars, genVars>>
  \/ \E seed \in Seeds :
       FontLoaded(seed) /\ CountSwitch /\ SeeGesture
         /\ UNCHANGED <<trackerVars, envVars, domVars, rawLog, clsVars, genVars>>
  \/ FontFailed /\ UNCHANGED <<trackerVars, envVars, domVars, histVars, clsVars, genVars>>
  \/ Tick /\ CountSwitch /\ SeeGesture
       /\ UNCHANGED <<trackerVars, envVars, domVars, rawLog, clsVars, genVars>>
  \/ CycleClick /\ UNCHANGED <<trackerVars, envVars, domVars, histVars, clsVars, genVars>>
  \/ \E p \in PointerSamples :
       PointerMove(p) /\ UNCHANGED <<trackerVars, envVars, domVars, histVars, clsVars, genVars>>
  \/ PointerLeave /\ UNCHANGED <<trackerVars, envVars, domVars, histVars, clsVars, genVars>>

Spec == Init /\ [][Next]_vars

\* the render loop beside the detector: boot, ticks, the camera button and
\* the detection loop; the formation button and the pointer are left out
NextRender ==
  \/ ToggleCamera(AppStarts) /\ UNCHANGED <<histVars, engineVars, thrown, mainVars, clsVars, genVars>>
  \/ \E i \in StartIds :
       CameraGranted(i) /\ UNCHANGED <<histVars, engineVars, thrown, mainVars, clsVars, genVars>>
  \/ \E i \in StartIds :
       CameraDenied(i) /\ UNCHANGED <<histVars, engineVars, thrown, mainVars, clsVars, genVars>>
  \/ \E i \in StartIds :
       Played(i) /\ UNCHANGED <<histVars, engineVars, thrown, mainVars, clsVars, genVars>>
  \/ \E i \in StartIds, r \in AppResults :
       Deliver(i, r) /\ UNCHANGED <<histVars, engineVars, thrown, mainVars, clsVars, genVars>>
  \/ \E i \in StartIds :
       SendResolved(i) /\ UNCHANGED <<histVars, engineVars, thrown, mainVars, clsVars, genVars>>
  \/ \E i \in StartIds :
       RafFire(i) /\ UNCHANGED <<histVars, engineVars, thrown, mainVars, clsVars, genVars>>
  \/ \E seed \in Seeds :
       FontLoaded(seed) /\ UNCHANGED <<trackerVars, envVars, domVars, histVars, clsVars, genVars>>
  \/ FontFailed /\ UNCHANGED <<trackerVars, envVars, domVars, histVars, clsVars, genVars>>
  \/ Tick /\ UNCHANGED <<trackerVars, envVars, domVars, histVars, clsVars, genVars>>

SpecRender == Init /\ [][NextRender]_vars

\* ------------------------------------------------- classifier harness

\* landmark sets over the coordinates the classifier compares: the thumb's
\* tip, ip and mcp x, and each finger's tip y against a pip y of 1
ClassifyInputs ==
  {Landmarks(t4, t3, t2, i8, 1, m12, 1, r16, 1, p20, 1, 5) :
     t4 \in 0..ThumbMax, t3 \in 0..ThumbMax, t2 \in {0, ThumbMax},
     i8 \in 0..TipMax, m12 \in 0..TipMax, r16 \in 0..TipMax, p20 \in 0..TipMax}

InitClassify ==
  /\ InitTracker /\ InitEngine /\ InitMain /\ InitGen
  /\ clsIn \in {HandResult(lm) : lm \in ClassifyInputs}
  /\ clsOut = "pending"

\* _classifyGesture applied to the first hand of the result
Classify ==
  /\ clsOut = "pending"
  /\ clsOut' = _classifyGesture(clsIn[1])
  /\ UNCHANGED <<clsIn, trackerVars, envVars, domVars, histVars, engineVars, thrown,
                 mainVars, genVars>>

NextClassify == Classify

SpecClassify == InitClassify /\ [][NextClassify]_vars

\* ----------------------------------------------------- engine harness

\* clouds handed to setTarget: none, an empty one, one point, exactly count
\* points, and more points than particles
EngineClouds ==
  {Undefined,
   Cloud(<< >>),
   Cloud(<<Scale, -Scale, 0>>),
   Cloud(getSpherePositions(PARTICLE_COUNT, 12 * Scale, 1)),
   Cloud(getHeartPositions(PARTICLE_COUNT + 1, 70, 0))}

\* attractors: none, the pointer sample, a point close to a start position,
\* and points at exactly the radius, at exactly 0.01 and at 0.005 from it
EngineAttractors ==
  {<< >>, getAttractorFromNDC(<<2, -1>>), <<6 * Scale, 0, -(5 * Scale)>>,
   <<6 * Scale + attractRadius, 0, -(6 * Scale)>>,
   <<6 * Scale, attractEpsilon, -(6 * Scale)>>,
   <<6 * Scale, 0, -(6 * Scale) + attractEpsilon \div 2>>}

EngineSetTarget(targetArray) ==
  /\ SetEngine(SetTarget(Engine, targetArray))
  /\ UNCHANGED <<trackerVars, envVars, domVars, histVars, mainVars, clsVars, genVars>>

EngineSetAttractor(a) ==
  /\ attractor' = a
  /\ UNCHANGED <<pos, targetPositions, uTime, thrown,
                 trackerVars, envVars, domVars, histVars, mainVars, clsVars, genVars>>

EngineUpdate ==
  /\ uTime < MaxTicks
  /\ SetEngine(Update(Engine, uTime + 1))
  /\ UNCHANGED <<trackerVars, envVars, domVars, histVars, mainVars, clsVars, genVars>>

NextEngine ==
  \/ \E c \in EngineClouds : EngineSetTarget(c)
  \/ \E a \in EngineAttractors : EngineSetAttractor(a)
  \/ EngineUpdate

SpecEngine == Init /\ [][NextEngine]_vars

\* ------------------------------------------------- convergence harness

\* the clouds precomputeFormations computes, for each draw
LerpTargets ==
  LET n == PARTICLE_COUNT
  IN  UNION {{getSpherePositions(n, 12 * Scale, seed),
              getPlanetPositions(n, seed),
              getTextPositions("Carolina", n, seed),
              getTextPositions("Te Quiero", n, seed),
              getHeartPositions(n, 70, seed),
              getCompactPositions(n, (12 * Scale) \div 10, seed)} : seed \in Seeds}

\* a constructed engine whose target was set once; no attractor
InitLerp ==
  /\ InitTracker /\ InitMain /\ InitCls /\ InitGen
  /\ \E seed \in Seeds : pos = _buildGeometry(PARTICLE_COUNT, seed)
  /\ \E t \in LerpTargets : targetPositions = WrapTarget(t, PARTICLE_COUNT)
  /\ attractor = << >>
  /\ uTime = 0
  /\ thrown = "none"

\* one more frame: update(elapsed)
LerpFrame ==
  /\ uTime < MaxFrames
  /\ SetEngine(Update(Engine, uTime + 1))
  /\ UNCHANGED <<trackerVars, envVars, domVars, histVars, mainVars, clsVars, genVars>>

NextLerp == LerpFrame

SpecLerp == InitLerp /\ [][NextLerp]_vars

\* --------------------------------------------------- generator harness

GeneratorNames == {"sphere", "compact", "heart", "planet", "Carolina", "Te Quiero"}

\* the generator calls of precomputeFormations, with count n
CallGenerator(gen, n, seed) ==
  CASE gen = "sphere"    -> getSpherePositions(n, 12 * Scale, seed)
    [] gen = "compact"   -> getCompactPositions(n, (12 * Scale) \div 10, seed)
    [] gen = "heart"     -> getHeartPositions(n, 70, seed)
    [] gen = "planet"    -> getPlanetPositions(n, seed)
    [] gen = "Carolina"  -> getTextPositions("Carolina", n, seed)
    [] gen = "Te Quiero" -> getTextPositions("Te Quiero", n, seed)

InitGenerate ==
  /\ InitTracker /\ InitEngine /\ InitMain /\ InitCls
  /\ genIn \in [gen : GeneratorNames, n : 0..MaxN, seed : Seeds]
  /\ genOut = [done |-> FALSE, data |-> << >>]

Generate ==
  /\ ~genOut.done
  /\ genOut' = [done |-> TRUE, data |-> CallGenerator(genIn.gen, genIn.n, genIn.seed)]
  /\ UNCHANGED <<genIn, trackerVars, envVars, domVars, histVars, engineVars, thrown,
                 mainVars, clsVars>>

NextGenerate == Generate

SpecGenerate == InitGenerate /\ [][NextGenerate]_vars

\* --------------------------------------------------- formation harness

\* ids handed to setFormation: the six formations and one that is none
SetFormationIds == FormationIds \cup {"SPIRAL"}

SetFormationCall(id) ==
  /\ SetMain(setFormation(Main, id))
  /\ UNCHANGED <<bootPc, mouse>>

\* boot, formation button, render ticks, pointer and direct setFormation calls
NextFormation ==
  \/ \E seed \in Seeds :
       FontLoaded(seed) /\ UNCHANGED <<trackerVars, envVars, domVars, histVars, clsVars, genVars>>
  \/ FontFailed /\ UNCHANGED <<trackerVars, envVars, domVars, histVars, clsVars, genVars>>
  \/ Tick /\ UNCHANGED <<trackerVars, envVars, domVars, histVars, clsVars, genVars>>
  \/ CycleClick /\ UNCHANGED <<trackerVars, envVars, domVars, histVars, clsVars, genVars>>
  \/ \E id \in SetFormationIds :
       SetFormationCall(id)
         /\ UNCHANGED <<trackerVars, envVars, domVars, histVars, clsVars, genVars>>
  \/ \E p \in PointerSamples :
       PointerMove(p) /\ UNCHANGED <<trackerVars, envVars, domVars, histVars, clsVars, genVars>>
  \/ PointerLeave /\ UNCHANGED <<trackerVars, envVars, domVars, histVars, clsVars, genVars>>

SpecFormation == Init /\ [][NextFormation]_vars

\* ===================================================================
\* Claims
\* ===================================================================

\* a detection result is being delivered to _onResults by loop chain i
DeliverStep(i) == loopPc[i] = "send" /\ loopPc'[i] = "delivered"

\* stop() is running: it is only called on an active tracker
StopStep == active /\ ~active'

\* C1: the stable label changes at a hand-present frame only if that frame's
\* raw classification equals the raw classification of the two hand-present
\* frames before it; besides a frame, only stop() changes the label (to null).
C1_StableNeedsThree ==
  [][gesture' # gesture =>
       \/ StopStep /\ gesture' = Null
       \/ /\ \E i \in StartIds : DeliverStep(i)
          /\ rawLog' = <<gesture', gesture', gesture'>>]_vars

\* C1 witness: FIST, FIST, OPEN, OPEN, OPEN has just made OPEN stable while
\* FIST never became stable: the log ends in three OPEN and the label is OPEN.
C1_Witness ==
  /\ rawLog = <<"OPEN", "OPEN", "OPEN">>
  /\ gesture = "OPEN"
  /\ gestureCount = _DEBOUNCE

FlagsOf(lm) ==
  [f \in {"thumb", "index", "middle", "ring", "pinky"} |-> _isFingerExtended(lm, f)]

ExtendedCount(fl) == Cardinality({f \in DOMAIN fl : fl[f]})

\* the rules in their order: label and whether the flags match
Rules(fl) ==
  << <<"ILY",  fl.thumb /\ fl.index /\ ~fl.middle /\ ~fl.ring /\ fl.pinky>>,
     <<"ROCK", ~fl.thumb /\ fl.index /\ ~fl.middle /\ ~fl.ring /\ fl.pinky>>,
     <<"PEACE", fl.index /\ fl.middle /\ ~fl.ring /\ ~fl.pinky>>,
     <<"INDEX_UP", fl.index /\ ~fl.middle /\ ~fl.ring /\ ~fl.pinky /\ ~fl.thumb>>,
     <<"OPEN", ExtendedCount(fl) >= 4>>,
     <<"FIST", ExtendedCount(fl) <= 1>> >>

FirstMatch(rules) ==
  IF \E k \in DOMAIN rules : rules[k][2]
    THEN LET k == CHOOSE n \in DOMAIN rules :
                    rules[n][2] /\ \A j \in 1..(n - 1) : ~rules[j][2]
         IN  rules[k][1]
    ELSE Null

\* C3: over all 32 combinations of the flags the classifier returns the label
\* of the first matching rule, null if none matches; thumb+index+pinky alone
\* is ILY; null is returned exactly for 2 or 3 extended fingers that are not
\* ILY, ROCK or PEACE.
C3_FirstMatchWins ==
  clsOut # "pending" =>
    LET fl == FlagsOf(clsIn[1])
    IN  /\ clsOut = FirstMatch(Rules(fl))
        /\ (fl.thumb /\ fl.index /\ fl.pinky /\ ~fl.middle /\ ~fl.ring
              => clsOut = "ILY")
        /\ (clsOut = Null <=>
              /\ ExtendedCount(fl) \in {2, 3}
              /\ FirstMatch(SubSeq(Rules(fl), 1, 3)) = Null)

\* C3 witness: three extended fingers in no pattern were classified as null.
C3_Witness ==
  /\ clsOut = Null
  /\ ExtendedCount(FlagsOf(clsIn[1])) = 3
  /\ FlagsOf(clsIn[1]).thumb

\* C4: a result delivered while the tracker is stopped changes neither
\* fingerPos, gesture nor the debounce state.
C4_LateResultIsNoOp ==
  [][\A i \in StartIds :
       DeliverStep(i) /\ ~active =>
         UNCHANGED <<fingerPos, gesture, gestureBuffer, gestureCount>>]_vars

\* a detection request is being issued by loop chain i
SendStep(i) == loopPc[i] # "send" /\ loopPc'[i] = "send"

\* C5: a detection request is issued only by an active tracker: between
\* stop() and the completion of a later start() none is issued.
C5_NoSendWhileStopped ==
  [][\A i \in StartIds : SendStep(i) => active']_vars

\* C5 witness: the tracker is stopped and a loop chain that was running at
\* the stop has ended at _loop()'s check, its frame having run after stop().
C5_Witness ==
  /\ ~active
  /\ \E i \in StartIds : loopPc[i] = "ended" /\ rafId = i /\ fingerPos # << >>

\* C6: when stop() returns, no stream acquired by an earlier start() is live.
C6_StopReleasesEveryStream ==
  [][StopStep => \A i \in StartIds : stream'[i] # "live"]_vars

\* a render tick is running (animate): the clock value advances
TickStep == uTime' # uTime

\* the condition under which processGesture switches, on the step's tick
SwitchDue ==
  /\ active
  /\ gesture # Null
  /\ gesture # lastGesture
  /\ gesture \in DOMAIN GESTURE_TO_FORMATION
  /\ GESTURE_TO_FORMATION[gesture] \in DOMAIN formationData'
  /\ GESTURE_TO_FORMATION[gesture] # currentFormation

\* C7: a render tick changes the formation iff tracking is active and the
\* stable gesture is non-null, differs from _lastGesture and maps to a
\* formation with a cloud other than the current one; then the formation,
\* the target and the title are the mapped formation's; otherwise the
\* formation is unchanged, and so is the target on every tick after boot.
C7_SwitchIff ==
  [][TickStep =>
       /\ (currentFormation' # currentFormation) <=> SwitchDue
       /\ SwitchDue =>
            LET f == GESTURE_TO_FORMATION[gesture]
            IN  /\ currentFormation' = f
                /\ targetPositions' = WrapTarget(formationData'[f], PARTICLE_COUNT)
                /\ titleText' = FORMATION_INFO[f].title
       /\ ~SwitchDue /\ bootPc = "running" =>
            UNCHANGED <<currentFormation, targetPositions, titleText>>]_vars

\* C7 witness: the only tick so far processed FIST, newly stable, and switched
\* from COSMOS to COMPACT (the formation button does nothing before that tick).
C7_Witness ==
  /\ uTime = 1
  /\ lastGesture = "FIST"
  /\ currentFormation = "COMPACT"
  /\ titleText = FORMATION_INFO["COMPACT"].title
  /\ targetPositions = WrapTarget(formationData["COMPACT"], PARTICLE_COUNT)

\* a bad cloud is being handed to setTarget: undefined or zero-length
BadCloud(c) == ~c.defined \/ Len(c.data) = 0

\* C8: setTarget with an undefined or empty cloud does not throw and is
\* without effect on the live positions: they are unchanged by the call, and
\* the next update() yields what it would have yielded without the call.
C8_BadCloudIsNoOp ==
  [][\A c \in EngineClouds :
       BadCloud(c) /\ EngineSetTarget(c) =>
         /\ thrown' = thrown
         /\ pos' = pos
         /\ Update(Engine, uTime + 1).pos = Update(Engine', uTime + 1).pos]_vars

\* C9: setFormation(id) with id the current formation, or with an id that has
\* no computed cloud, changes nothing and raises nothing.
C9_SetFormationNoOp ==
  [][\A id \in SetFormationIds :
       /\ SetFormationCall(id)
       /\ (id = currentFormation \/ id \notin DOMAIN formationData)
       => /\ UNCHANGED <<currentFormation, targetPositions, titleText, pos>>
          /\ thrown' = thrown]_vars

\* C9 witness: after boot and a change of formation, with every cloud
\* computed, the formation harness is in a state where both no-op cases were
\* callable: the current id, and the id without a cloud.
C9_Witness ==
  /\ bootPc = "running"
  /\ currentFormation = "HEART"
  /\ thrown = "none"
  /\ "SPIRAL" \notin DOMAIN formationData
  /\ targetPositions = WrapTarget(formationData["HEART"], PARTICLE_COUNT)

\* C10: the live positions change only on a render tick, and on a tick they
\* are exactly update() applied to the positions as they were, whatever
\* target changes the tick's processGesture made; every other step (buttons,
\* detector, camera, pointer) leaves them unchanged.
C10_OnlyUpdateWritesPositions ==
  [][/\ ~TickStep => pos' = pos
     /\ TickStep =>
          pos' = Update([Engine' EXCEPT !.pos = pos], uTime').pos]_vars

\* C10 witness: the formation button changed the target after the last
\* update, and the live positions are not the new target.
C10_Witness ==
  /\ bootPc = "running"
  /\ currentFormation = "COMPACT"
  /\ targetPositions = WrapTarget(formationData["COMPACT"], PARTICLE_COUNT)
  /\ pos # targetPositions
  /\ uTime = 1

\* the points of a flat coordinate array, and point i (from 0) of it
PointCount(a) == Len(a) \div 3
PointAt(a, i) == <<a[i * 3 + 1], a[i * 3 + 2], a[i * 3 + 3]>>

\* C11: after setTarget with a cloud of M >= 1 points the target holds exactly
\* PARTICLE_COUNT points and target point i is source point i mod M: a shorter
\* cloud repeats cyclically, a longer one is cut to its first points.
C11_TargetWrapsSource ==
  [][\A c \in EngineClouds :
       c.defined /\ PointCount(c.data) >= 1 /\ EngineSetTarget(c) =>
         /\ Len(targetPositions') = PARTICLE_COUNT * 3
         /\ \A i \in 0..(PARTICLE_COUNT - 1) :
              PointAt(targetPositions', i) = PointAt(c.data, i % PointCount(c.data))]_vars

\* C11 witness: a one-point cloud was set and fills every particle's target.
C11_Witness ==
  /\ Len(targetPositions) = PARTICLE_COUNT * 3
  /\ \A i \in 0..(PARTICLE_COUNT - 1) : PointAt(targetPositions, i) = <<Scale, -Scale, 0>>

\* the remaining distance of coordinate k to its target, now and after the step
Remaining(k) == targetPositions[k] - pos[k]
RemainingNext(k) == targetPositions'[k] - pos'[k]

\* the largest remaining distance at which 0.08 of it rounds to no step
StallSteps == 50 \div 8

\* what every frame does to one coordinate: it moves by 0.08 of the remaining
\* distance, to the nearest representable value; the distance does not grow
\* and does not change sign
FrameMoves(k) ==
  /\ 2 * Abs(100 * (Remaining(k) - RemainingNext(k)) - 8 * Remaining(k)) <= 100
  /\ Abs(RemainingNext(k)) <= Abs(Remaining(k))
  /\ Remaining(k) * RemainingNext(k) >= 0

Dist2(q, a) ==
  (a[1] - q[1]) * (a[1] - q[1]) + (a[2] - q[2]) * (a[2] - q[2])
    + (a[3] - q[3]) * (a[3] - q[3])

\* the positions the step's update() yields before the attraction is applied
BeforeAttraction == Update([Engine EXCEPT !.attractor = << >>], uTime + 1).pos

\* C13: update() lets the attractor displace a particle only if the particle
\* is closer to it than the radius and farther than 0.01: at exactly the
\* radius, beyond it, at 0.01 or less, and with a null attractor the
\* particle ends the frame where the lerp alone put it.
C13_AttractionOnlyInRange ==
  [][EngineUpdate =>
       \A i \in 0..(PARTICLE_COUNT - 1) :
         LET q == PointAt(BeforeAttraction, i)
         IN  (\/ attractor = << >>
              \/ q[1] = NaN
              \/ Dist2(q, attractor) >= attractRadius * attractRadius
              \/ Dist2(q, attractor) <= attractEpsilon * attractEpsilon)
             => PointAt(pos', i) = q]_vars

\* C13 witness: an update ran with the attractor 0.005 away from particle 0,
\* which is still at its start position, as is the distant particle 1.
C13_Witness ==
  /\ uTime > 0
  /\ targetPositions = << >>
  /\ attractor # << >>
  /\ Dist2(PointAt(pos, 0), attractor) = (attractEpsilon \div 2) * (attractEpsilon \div 2)
  /\ pos = _buildGeometry(PARTICLE_COUNT, 0)

\* C14: on every render tick the engine's attractor is the fingertip position
\* if tracking is active and a hand is visible, else the last pointer
\* position if one is known, else null; the fingertip position of an
\* inactive tracker is not used.
C14_AttractorPreference ==
  [][TickStep =>
       attractor' =
         IF active /\ fingerPos # << >> THEN getAttractorFromNDC(fingerPos)
         ELSE IF mouse # MouseAway THEN getAttractorFromNDC(mouse)
         ELSE << >>]_vars

\* C14 witness: after a tick, the stopped tracker still holds a fingertip
\* position (a late result), the pointer is known, and the attractor is the
\* pointer's.
C14_Witness ==
  /\ bootPc = "running"
  /\ ~active
  /\ fingerPos # << >>
  /\ mouse # MouseAway
  /\ attractor = getAttractorFromNDC(mouse)
  /\ attractor # getAttractorFromNDC(fingerPos)

\* C15: after a failed font load the four formations that need no font are
\* computed and the two text formations are not.
C15_FontFailureKeepsShapes ==
  bootPc = "failed" =>
    /\ {"COSMOS", "PLANET", "HEART", "COMPACT"} \subseteq DOMAIN formationData
    /\ {"CAROLINA", "TEQUIERO"} \cap DOMAIN formationData = {}

\* start() call i is failing: getUserMedia rejected
DeniedStep(i) == startPc[i] = "camera" /\ startPc'[i] = "failed"

\* a detection loop is running: some chain has a request or a frame pending
LoopRunning(pc) == \E j \in StartIds : pc[j] \in {"send", "delivered", "raf"}

\* C16: when start() fails acquiring the camera, the tracker is inactive
\* afterwards with no detection loop running, the status text is the failure
\* message, and the render loop's state is untouched.
C16_DeniedLeavesInactive ==
  [][\A i \in StartIds :
       DeniedStep(i) =>
         /\ ~active'
         /\ ~LoopRunning(loopPc')
         /\ statusText' = StatusFailed
         /\ UNCHANGED <<bootPc, engineVars, thrown>>]_vars

\* C17: between two consecutive detection results the render ticks make at
\* most one gesture-driven formation switch, however many ticks run.
C17_OneSwitchPerResult == switchCount <= 1

\* C17 witness: since the last result FIST switched the formation once; the
\* button then changed the formation and two ticks have run, with FIST still
\* the stable gesture and no second switch back.
C17_Witness ==
  /\ switchCount = 1
  /\ active /\ gesture = "FIST" /\ lastGesture = "FIST"
  /\ currentFormation = "PLANET"
  /\ uTime = 2
  /\ pos # _buildGeometry(PARTICLE_COUNT, 0)

\* every formation has its cloud
AllComputed == DOMAIN formationData = FormationIds

\* C18: setTarget is only ever handed a computed cloud: it never received
\* undefined, a target exists only once all six clouds are computed and is
\* one of them wrapped, no update has run before that, and before that the
\* buttons and gestures have changed nothing.
C18_TargetAlwaysComputed ==
  /\ thrown # "TypeError"
  /\ targetPositions # << >> =>
       /\ AllComputed
       /\ \E f \in FormationIds :
            targetPositions = WrapTarget(formationData[f], PARTICLE_COUNT)
  /\ uTime > 0 => AllComputed
  /\ ~AllComputed => formationData = << >> /\ currentFormation = "COSMOS"

\* C18 witness: precomputation has not finished while the tracker is active
\* with a stable gesture; nothing was handed to the engine.
C18_Witness ==
  /\ bootPc = "loading"
  /\ active /\ gesture = "FIST"
  /\ targetPositions = << >>
  /\ thrown = "none"
  /\ uTime = 0

\* C19: every formation generator called with count n returns exactly 3 * n
\* values.
C19_GeneratorLength ==
  genOut.done => Len(genOut.data) = 3 * genIn.n

\* C19 witness: the planet generator, which fills body and ring separately,
\* returned 3 * MaxN values for MaxN points.
C19_Witness ==
  /\ genOut.done
  /\ genIn.gen = "planet"
  /\ genIn.n = MaxN
  /\ Len(genOut.data) = 3 * MaxN
  /\ PointAt(genOut.data, 0) # PointAt(genOut.data, MaxN - 1)

\* C20: a zero-hand result leaves _gestureBuffer and _gestureCount as they
\* are; a hand-present frame adds one to the count if its raw label is the
\* buffered one and restarts it at 1 only if the label differs.
C20_DropoutKeepsProgress ==
  [][\A i \in StartIds, r \in DebounceResults :
       Deliver(i, r) =>
         IF Len(r) = 0
           THEN UNCHANGED <<gestureBuffer, gestureCount>>
           ELSE /\ gestureBuffer' = _classifyGesture(r[1])
                /\ gestureCount' = IF _classifyGesture(r[1]) = gestureBuffer
                                     THEN gestureCount + 1 ELSE 1]_vars

\* C20 witness: after FIST, FIST and a zero-hand result the tracker is still
\* active with no fingertip, nothing committed, and the count of 2 kept.
C20_Witness ==
  /\ active
  /\ fingerPos = << >>
  /\ gesture = Null
  /\ gestureBuffer = "FIST"
  /\ gestureCount = 2
  /\ rawLog = <<"FIST", "FIST">>

\* the loop chains that are alive: a request outstanding or a frame scheduled
AliveLoops == {j \in StartIds : loopPc[j] \in {"send", "delivered", "raf"}}

\* C21: at most one detection loop is alive at any time.
C21_OneLoopAlive == Cardinality(AliveLoops) <= 1

\* C22: under SpecSession, where the log is emptied at every stop() and
\* start(), a frame received by the active tracker makes a label stable only
\* if the session's own last three hand-present frames were all classified
\* as that label.
C22_CommitWithinSession ==
  [][(\E i \in StartIds : DeliverStep(i)) /\ active /\ gesture' # gesture
       => rawLog' = <<gesture', gesture', gesture'>>]_vars

\* C23: a render tick is one step in which no tracker or pointer state
\* changes; if it switches the formation, the new formation's wrapped cloud is
\* the engine's target after the step, and the positions after the step are
\* the positions before it advanced once toward the target and with the
\* attractor that the step leaves in the engine.
C23_TickOrder ==
  [][TickStep =>
       /\ UNCHANGED <<trackerVars, envVars, mouse>>
       /\ currentFormation' # currentFormation =>
            targetPositions' = WrapTarget(formationData'[currentFormation'],
                                          PARTICLE_COUNT)
       /\ pos' = Update([Engine EXCEPT !.targetPositions = targetPositions',
                                       !.attractor = attractor'],
                        uTime').pos]_vars

\* C23 witness: the last tick switched the formation on the stable gesture
\* FIST: the formation and the target are those of FIST and the particles
\* have left their start positions.
C23_Witness ==
  /\ uTime = MaxTicks
  /\ switchCount = 1
  /\ lastGesture = "FIST"
  /\ currentFormation = GESTURE_TO_FORMATION["FIST"]
  /\ targetPositions = WrapTarget(formationData[currentFormation], PARTICLE_COUNT)
  /\ pos # _buildGeometry(PARTICLE_COUNT, 0)

\* the render loop has started and the clock has not reached MaxTicks
LoopStarted == bootPc = "running" /\ uTime < MaxTicks

\* C24: once the render loop has started a tick is enabled in every state,
\* whatever the detection loops are doing; a tick of an active tracker
\* remembers the stable gesture of the state it runs in and, when that state
\* has a fingertip position, aims the attractor at it.
C24_TickNeverWaits ==
  LoopStarted =>
    ENABLED (/\ Tick
             /\ active =>
                  /\ lastGesture' = gesture
                  /\ fingerPos # << >> =>
                       attractor' = getAttractorFromNDC(fingerPos))

\* C24 witness: ticks have run while a detection request is outstanding: the
\* clock is at MaxTicks, a request is in flight, and the last tick took the
\* committed gesture FIST and the fingertip position.
C24_Witness ==
  /\ uTime = MaxTicks
  /\ \E i \in StartIds : loopPc[i] = "send"
  /\ active
  /\ gesture = "FIST"
  /\ lastGesture = "FIST"
  /\ fingerPos # << >>
  /\ attractor = getAttractorFromNDC(fingerPos)

\* C25: once the clouds are computed the engine's target is the wrapped cloud
\* of currentFormation in every state, and from then on the target changes
\* only in a step that changes currentFormation.
C25_TargetIsCurrent ==
  /\ [](AllComputed =>
          targetPositions = WrapTarget(formationData[currentFormation],
                                       PARTICLE_COUNT))
  /\ [][AllComputed /\ targetPositions' # targetPositions
          => currentFormation' # currentFormation]_vars

\* C25 witness: two clicks on the formation button after the boot moved the
\* formation from COSMOS over COMPACT to PLANET, and ticks have run since
\* the boot; the target is the wrapped PLANET cloud.
C25_Witness ==
  /\ bootPc = "running"
  /\ uTime = MaxTicks
  /\ currentFormation = "PLANET"
  /\ titleText = FORMATION_INFO["PLANET"].title
  /\ targetPositions = WrapTarget(formationData["PLANET"], PARTICLE_COUNT)
  /\ targetPositions # WrapTarget(formationData["COSMOS"], PARTICLE_COUNT)

\* the formation that follows f in the enumeration order, COMPACT wrapping
\* to PLANET
NextInOrder(f) ==
  CASE f = "PLANET"   -> "CAROLINA"
    [] f = "CAROLINA" -> "TEQUIERO"
    [] f = "TEQUIERO" -> "HEART"
    [] f = "HEART"    -> "COSMOS"
    [] f = "COSMOS"   -> "COMPACT"
    [] f = "COMPACT"  -> "PLANET"

\* the module state after n clicks on the formation button in a row
RECURSIVE Clicks(_, _)
Clicks(m, n) == IF n = 0 THEN m ELSE Clicks(cycleFormation(m), n - 1)

\* C26: with all clouds computed, a click on the formation button moves
\* currentFormation to the next formation in the order PLANET, CAROLINA,
\* TEQUIERO, HEART, COSMOS, COMPACT, PLANET, and from every state six clicks
\* in a row lead back to the formation they started from and fewer do not.
C26_CycleOrder ==
  /\ [][CycleClick /\ AllComputed
          => currentFormation' = NextInOrder(currentFormation)]_vars
  /\ [](AllComputed =>
          /\ Clicks(Main, 6).currentFormation = currentFormation
          /\ \A n \in 1..5 : Clicks(Main, n).currentFormation # currentFormation)

\* C26 witness: three clicks after the boot: COSMOS, COMPACT, then the wrap
\* to PLANET, then CAROLINA, which no gesture of the detector selects.
C26_Witness ==
  /\ AllComputed
  /\ currentFormation = "CAROLINA"
  /\ titleText = FORMATION_INFO["CAROLINA"].title
  /\ targetPositions = WrapTarget(formationData["CAROLINA"], PARTICLE_COUNT)

\* the positions after a first tick toward the COMPACT cloud with the
\* attractor of the current state
AfterFirstTick ==
  Update([Engine EXCEPT !.pos = _buildGeometry(PARTICLE_COUNT, 0),
                        !.targetPositions =
                           WrapTarget(formationData["COMPACT"], PARTICLE_COUNT)],
         1).pos

\* C27: a render tick of the active tracker whose stable gesture is the one
\* the previous active tick read changes neither the formation nor the title
\* nor, after the boot, the target, whatever the formation button did in
\* between.
C27_HeldGestureKeepsManualChange ==
  [][TickStep /\ active /\ gesture = seenGesture
       => /\ UNCHANGED <<currentFormation, titleText>>
          /\ bootPc = "running" => UNCHANGED targetPositions]_vars

\* C27 witness: the first tick read FIST and went toward COMPACT; the button
\* then moved the formation on to PLANET; the second tick read FIST again and
\* advanced toward PLANET: FIST is held and the formation is not COMPACT.
C27_Witness ==
  /\ active /\ gesture = "FIST" /\ seenGesture = "FIST"
  /\ fingerPos # << >>
  /\ attractor = getAttractorFromNDC(fingerPos)
  /\ currentFormation = "PLANET"
  /\ currentFormation # GESTURE_TO_FORMATION[gesture]
  /\ targetPositions = WrapTarget(formationData["PLANET"], PARTICLE_COUNT)
  /\ pos = Update([Engine EXCEPT !.pos = AfterFirstTick], 2).pos

====
